---- MODULE Spec2Model ----
(***************************************************************************)
(* EnterpriseGadgetTracker (src/unnamed/part_000) driven as in             *)
(* src/example.ts: one tracker receives addGadget / updateGadget /         *)
(* deleteGadget / exportEncrypted calls, a second tracker (tracker2)       *)
(* receives importEncrypted calls.                                         *)
(*                                                                         *)
(* A tracker is a record                                                   *)
(*   heap     the Gadget objects the tracker can reach, by reference       *)
(*   gadgets  the Map<string, Gadget>, in insertion order, as a sequence   *)
(*            of [key, val] with val a reference into heap                 *)
(*   history  the GadgetHistoryEntry[] with gadget a reference into heap   *)
(*   version  the version stamp                                            *)
(* Objects are kept by reference because the code mutates the live Gadget  *)
(* in place and history snapshots are spread copies of it.                 *)
(* initialGadgets is the argument tracker was constructed with, encrypted   *)
(* the export the driver took (const encrypted), now the latest clock      *)
(* reading, last the latest call and its result, pc the driver's position: *)
(* "build", "exported", "constructed" (tracker2 is there), "done".         *)
(*                                                                         *)
(* Inputs: names and brands are strings (the empty one included), prices   *)
(* are finite integers, negative ones included (NaN and Infinity are not   *)
(* drawn). A clock reading shows the instant of the reading before it or   *)
(* the next one. generateId never returns an id it has already returned.   *)
(***************************************************************************)
EXTENDS Integers, Sequences, FiniteSets, TLC

\* ---------------------------------------------------------------- bounds
MaxHist == 3

\* 'gadget-' + randomBytes(6).toString('hex'): the i-th id of the model.
Id(i) == "gadget-" \o ToString(i)

\* The ids the calls name, as many as addGadget can issue: while the history
\* has room for a call, one of them is absent from the store. The last of
\* them is also the id a caller gives the gadget it constructs a tracker
\* with; generateId does not come to return it on such a tracker.
Ids == {Id(i) : i \in 1..MaxHist}

\* The values addGadget is called with.
Names == {"", "a"}
Brands == {"", "x"}
Prices == {-1, 1}

\* The values the fields of updateGadget's data are drawn from, when given.
\* No call of the model gives a brand: updateGadget treats data.brand as it
\* treats data.name, which the calls do give.
UpdateNames == {""}
UpdateBrands == {}
UpdatePrices == {-1, 0}

Secrets == {"k1", "k2"}
\* randomBytes(16), as hex.
IVs == {"iv1"}
\* An iv of 16 bytes that no export drew, and one that is not 16 bytes long.
OtherIV == "iv0"
ShortIV == ""

\* The value of a property an object does not have.
Undefined == "undefined"

VARIABLES tracker, tracker2, initialGadgets, encrypted, now, last, pc
vars == <<tracker, tracker2, initialGadgets, encrypted, now, last, pc>>

\* ------------------------------------------------------- temporal values
\* A Date object holding the instant t (milliseconds).
Date(t) == [tag |-> "Date", t |-> t]
\* Date.prototype.toJSON, used by JSON.stringify: the ISO-8601 string of t.
toISOString(d) == [tag |-> "string", t |-> d.t]
\* JSON.stringify of a value held in a temporal field: a Date becomes its
\* ISO string, a string stays the string it is.
toJSON(v) == IF v.tag = "Date" THEN toISOString(v) ELSE v
\* The Date that holds no instant (its time is NaN).
InvalidDate == [tag |-> "Date", invalid |-> TRUE]
\* new Date(v) for v an ISO string (or a Date): the Date of the same instant;
\* for a string that is no date, Invalid Date.
NewDate(v) == IF "t" \in DOMAIN v THEN [tag |-> "Date", t |-> v.t] ELSE InvalidDate
\* new Date(obj[k]); new Date(undefined) is Invalid Date.
DateOf(obj, k) == IF k \in DOMAIN obj THEN NewDate(obj[k]) ELSE InvalidDate

\* ------------------------------------------------------------ references
\* The least reference not in use: the identity of a newly created object.
NewRef(heap) ==
  CHOOSE n \in 1..(Cardinality(DOMAIN heap) + 1) :
    n \notin DOMAIN heap /\ \A m \in 1..(n - 1) : m \in DOMAIN heap

\* heap with a new object obj at reference r.
Alloc(heap, r, obj) == (r :> obj) @@ heap

\* The object spread { ...gadget }: a new object with the same fields.
Spread(heap, ref) == Alloc(heap, NewRef(heap), heap[ref])

\* The history entry has a gadget (an imported one may have none).
HasGadget(h) == "gadget" \in DOMAIN h

\* The references a tracker holds, in the order of the Map and then of the
\* history array.
Held(s) ==
  LET hs == SelectSeq(s.history, HasGadget)
  IN [i \in DOMAIN s.gadgets |-> s.gadgets[i].val]
       \o [i \in DOMAIN hs |-> hs[i].gadget]

\* Objects the tracker no longer references are dropped (garbage), and the
\* objects it holds are renamed after the place that first holds them: which
\* references are equal is kept, which number names an object is not state.
Collect(s) ==
  LET c == Held(s)
      name(r) == CHOOSE i \in DOMAIN c : c[i] = r /\ \A j \in 1..(i - 1) : c[j] # r
  IN [heap |-> [n \in {name(c[i]) : i \in DOMAIN c} |-> s.heap[c[n]]],
      gadgets |-> [i \in DOMAIN s.gadgets |->
                     [key |-> s.gadgets[i].key, val |-> name(s.gadgets[i].val)]],
      history |-> [i \in DOMAIN s.history |->
                     IF HasGadget(s.history[i])
                       THEN [s.history[i] EXCEPT !.gadget = name(@)]
                       ELSE s.history[i]],
      version |-> s.version]

\* ------------------------------------------------------------ Map<K, V>
MapHas(m, k) == \E i \in DOMAIN m : m[i].key = k
MapGet(m, k) == m[CHOOSE i \in DOMAIN m : m[i].key = k].val
MapSet(m, k, v) ==
  IF MapHas(m, k)
    THEN [i \in DOMAIN m |-> IF m[i].key = k THEN [key |-> k, val |-> v] ELSE m[i]]
    ELSE Append(m, [key |-> k, val |-> v])
IsNotKey(e, k) == e.key # k
MapDelete(m, k) == SelectSeq(m, LAMBDA e : IsNotKey(e, k))

\* ------------------------------------------------------- results of calls
Return(v) == [throws |-> FALSE, value |-> v]
Throw(msg) == [throws |-> TRUE, value |-> msg]
Outcome(s, r) == [store |-> s, ret |-> r]

\* ----------------------------------------------------------- the tracker
EmptyStore == [heap |-> <<>>, gadgets |-> <<>>, history |-> <<>>, version |-> 1]

\* initialGadgets.forEach(g => this.gadgets.set(g.id, g)) from element i on:
\* the Map holds the caller's objects themselves, untested.
RECURSIVE setAll(_, _, _)
setAll(s, arr, i) ==
  IF i > Len(arr) THEN s
  ELSE LET r == NewRef(s.heap)
       IN setAll([s EXCEPT !.heap = Alloc(@, r, arr[i]),
                           !.gadgets = MapSet(@, arr[i].id, r)], arr, i + 1)

\* constructor(initialGadgets?), the empty sequence standing for no argument.
constructor(arr) == Collect(setAll(EmptyStore, arr, 1))

\* recordHistory pushing the object it was given instead of a copy of it.
recordHistory_NoCopy(s, action, ref, t) ==
  [s EXCEPT !.history = Append(@, [action |-> action, gadget |-> ref,
                                   timestamp |-> Date(t)])]

\* recordHistory(action, gadget): push { action, gadget: { ...gadget },
\* timestamp: new Date() }, the clock reading t.
recordHistory(s, action, ref, t) ==
  LET h1 == Spread(s.heap, ref)
      copy == NewRef(s.heap)
  IN [s EXCEPT !.heap = h1,
               !.history = Append(@, [action |-> action, gadget |-> copy,
                                      timestamp |-> Date(t)])]

\* The body of addGadget after its validation.
addValid(s, name, brand, price, id, t1, t2) ==
  LET r == NewRef(s.heap)
      s1 == [s EXCEPT !.heap = Alloc(@, r, [id |-> id, name |-> name,
                          brand |-> brand, price |-> price,
                          addedAt |-> Date(t1)]),
                      !.gadgets = MapSet(@, id, r)]
  IN Outcome(Collect(recordHistory(s1, "ADD", r, t2)), Return("Gadget"))

\* addGadget whose validation forgets the brand.
addGadget_NoBrandCheck(s, name, brand, price, id, t1, t2) ==
  IF name = "" \/ price < 0
    THEN Outcome(s, Throw("Invalid gadget data."))
    ELSE addValid(s, name, brand, price, id, t1, t2)

\* addGadget(name, brand, price) with generateId() = id and the two clock
\* readings t1 (addedAt) and t2 (history timestamp).
addGadget(s, name, brand, price, id, t1, t2) ==
  IF name = "" \/ brand = "" \/ price < 0
    THEN Outcome(s, Throw("Invalid gadget data."))
    ELSE addValid(s, name, brand, price, id, t1, t2)

\* updateGadget(id, data): data is a record holding the provided fields among
\* name, brand, price; t is the clock reading of recordHistory.
updateGadget(s, id, data, t) ==
  IF ~MapHas(s.gadgets, id)
    THEN Outcome(s, Return("null"))
    ELSE LET r == MapGet(s.gadgets, id)
             s1 == IF "name" \in DOMAIN data
                     THEN [s EXCEPT !.heap[r].name = data.name] ELSE s
             s2 == IF "brand" \in DOMAIN data
                     THEN [s1 EXCEPT !.heap[r].brand = data.brand] ELSE s1
         IN IF "price" \in DOMAIN data /\ data.price < 0
              THEN Outcome(s2, Throw("Price cannot be negative."))
              ELSE LET s3 == IF "price" \in DOMAIN data
                               THEN [s2 EXCEPT !.heap[r].price = data.price]
                               ELSE s2
                       tmp == NewRef(s3.heap)
                       s4 == [s3 EXCEPT !.heap = Spread(@, r)]
                   IN Outcome(Collect(recordHistory(s4, "UPDATE", tmp, t)),
                              Return("Gadget"))

\* deleteGadget recording the deletion before it looks the id up: for an
\* absent id it pushes an entry for a record holding nothing but the id.
deleteGadget_RecordsFirst(s, id, t) ==
  IF ~MapHas(s.gadgets, id)
    THEN LET r == NewRef(s.heap)
             s1 == [s EXCEPT !.heap = Alloc(@, r, [id |-> id, name |-> "",
                                 brand |-> "", price |-> 0, addedAt |-> Date(t)])]
         IN Outcome(Collect(recordHistory_NoCopy(s1, "DELETE", r, t)),
                    Return("false"))
    ELSE LET r == MapGet(s.gadgets, id)
             s1 == [s EXCEPT !.gadgets = MapDelete(@, id)]
         IN Outcome(Collect(recordHistory(s1, "DELETE", r, t)), Return("true"))

\* deleteGadget recording the deletion with the wrong action.
deleteGadget_WrongAction(s, id, t) ==
  IF ~MapHas(s.gadgets, id)
    THEN Outcome(s, Return("false"))
    ELSE LET r == MapGet(s.gadgets, id)
             s1 == [s EXCEPT !.gadgets = MapDelete(@, id)]
         IN Outcome(Collect(recordHistory(s1, "UPDATE", r, t)), Return("true"))

\* deleteGadget(id); t is the clock reading of recordHistory.
deleteGadget(s, id, t) ==
  IF ~MapHas(s.gadgets, id)
    THEN Outcome(s, Return("false"))
    ELSE LET r == MapGet(s.gadgets, id)
             s1 == [s EXCEPT !.gadgets = MapDelete(@, id)]
         IN Outcome(Collect(recordHistory(s1, "DELETE", r, t)), Return("true"))

\* ------------------------------------------------------ JSON and cipher
\* JSON null, as an element of a parsed array or as the parsed document.
JNull == [null |-> TRUE]
IsNull(v) == "null" \in DOMAIN v

\* JSON.stringify of a Gadget object: addedAt goes through toJSON.
GadgetJSON(g) ==
  [id |-> g.id, name |-> g.name, brand |-> g.brand, price |-> g.price,
   addedAt |-> toJSON(g.addedAt)]

\* JSON.stringify({ gadgets, history, version }): the document that
\* JSON.parse reads back, Dates having become strings.
stringify(s) ==
  [gadgets |-> [i \in DOMAIN s.gadgets |-> GadgetJSON(s.heap[s.gadgets[i].val])],
   history |-> [i \in DOMAIN s.history |->
                  [action |-> s.history[i].action,
                   gadget |-> GadgetJSON(s.heap[s.history[i].gadget]),
                   timestamp |-> toJSON(s.history[i].timestamp)]],
   version |-> s.version]

\* createKey(secret): SHA-256 of the secret, one key per secret.
createKey(secret) == [sha256 |-> secret]

\* A hex ciphertext given to decipher.update and decipher.final. A ciphertext
\* of whole blocks is told by what it deciphers to under the key and the iv
\* it was made with: a text that parses (text, a document), a text that is no
\* JSON, or bytes whose padding is bad. This covers the altered ciphertexts
\* too: an export whose hex was altered without changing its length is the
\* ciphertext of another text under the same key and iv. The hex can also be
\* of another length: an odd number of digits, or a whole number of bytes that
\* is no whole number of blocks.
NoDamage == [kind |-> "none"]
OddLength == [kind |-> "odd"]
Cut == [kind |-> "cut"]
Padding == [kind |-> "padding"]
NotJSON == [kind |-> "syntax"]
Damages == {OddLength, Cut, Padding, NotJSON}

\* aes-256-cbc: the ciphertext of text under key and iv (hex).
Cipher(key, iv, text) ==
  [key |-> key, iv |-> iv, text |-> text, damage |-> NoDamage]

\* A number as an element of a parsed array.
JNumber == [number |-> 1]
IsNumber(v) == "number" \in DOMAIN v
IsObject(v) == ~IsNull(v) /\ ~IsNumber(v)

\* Deciphering under another iv of 16 bytes: CBC xors the iv into the first
\* block of the text, which an iv can make read as any 16 characters. The
\* text of an export whose first gadget is at hand begins '{"gadgets":[{"id';
\* the other ivs of the model make that read '{"gadgetS":[{"id',
\* '{"gadgets":[{"iD', '{"gadgets":[1,{"' and garbage; the same ivs make of
\* the first block of an export without gadgets, '{"gadgets":[],"h': another
\* key for "gadgets", another key for "history", and garbage.
IvGadgetsKey == "iv1 xor gadgetS"
IvIdKey == "iv1 xor iD"
IvNumber == "iv1 xor [1,{"
OtherIVs == {IvGadgetsKey, IvIdKey, IvNumber, OtherIV}

\* obj with the key k of the first block read as other: the value obj holds
\* under k is held under other.
Rekey(obj, k, other) == (other :> obj[k]) @@ [j \in DOMAIN obj \ {k} |-> obj[j]]

\* The document that the text of doc, an export's document, parses as when
\* deciphered under iv instead of the iv of the encryption, if it still
\* parses (a set of at most one document). The iv that turns the d of "id"
\* into D turns the h of "history" into H; the one that puts a number first
\* leaves the value of "id" under the empty key.
UnderIv(doc, iv) ==
  IF ~IsObject(doc) \/ "gadgets" \notin DOMAIN doc THEN {}
  ELSE IF iv = IvGadgetsKey THEN {Rekey(doc, "gadgets", "gadgetS")}
  ELSE IF doc.gadgets = <<>>
    THEN (IF iv = IvIdKey /\ "history" \in DOMAIN doc
            THEN {Rekey(doc, "history", "History")} ELSE {})
  ELSE IF ~IsObject(doc.gadgets[1]) \/ "id" \notin DOMAIN doc.gadgets[1] THEN {}
  ELSE IF iv = IvIdKey THEN {[doc EXCEPT !.gadgets[1] = Rekey(@, "id", "iD")]}
  ELSE IF iv = IvNumber
    THEN {[doc EXCEPT !.gadgets = <<JNumber, Rekey(@[1], "id", "")>> \o Tail(@)]}
  ELSE {}

\* createDecipheriv, decipher.update + decipher.final and JSON.parse: the set
\* of ways they can end, each a parsed document returned or an error thrown.
\* createDecipheriv refuses an iv that is not 16 bytes long; update refuses
\* hex of an odd number of digits; final refuses data that is no whole number
\* of blocks. Under another key the padding is bad, or it happens to be good
\* and the garbage is no JSON. Under the key of the encryption the text comes
\* back as it is under the iv of the encryption, and with its first block
\* changed under another iv.
Decipher(data, key, iv) ==
  IF iv = ShortIV
    THEN {Throw("TypeError: Invalid initialization vector")}
  ELSE IF data.damage = OddLength
    THEN {Throw("TypeError [ERR_INVALID_ARG_VALUE]")}
  ELSE IF data.damage = Cut
    THEN {Throw("ERR_OSSL_WRONG_FINAL_BLOCK_LENGTH")}
  ELSE IF data.key # key
    THEN {Throw("ERR_OSSL_BAD_DECRYPT"), Throw("SyntaxError")}
  ELSE IF data.damage = Padding THEN {Throw("ERR_OSSL_BAD_DECRYPT")}
  ELSE IF data.damage = NotJSON THEN {Throw("SyntaxError")}
  ELSE IF iv = data.iv THEN {Return(data.text)}
  ELSE IF UnderIv(data.text, iv) = {} THEN {Throw("SyntaxError")}
  ELSE {Return(doc) : doc \in UnderIv(data.text, iv)}

\* Array.isArray(parsed.f): the field is present (every field the model gives
\* these documents under gadgets and history is an array).
IsArrayField(parsed, f) == f \in DOMAIN parsed

\* exportEncrypted(secret) with randomBytes(16) = iv.
exportEncrypted(s, secret, iv) ==
  [version |-> s.version, iv |-> iv,
   data |-> Cipher(createKey(secret), iv, stringify(s))]

\* obj[k], undefined when obj has no property k.
Get(obj, k) == IF k \in DOMAIN obj THEN obj[k] ELSE Undefined

\* parsed.gadgets.forEach(g => { g.addedAt = new Date(g.addedAt);
\* this.gadgets.set(g.id, g) }) from element i on; reading a property of null
\* and, the class body being strict code, creating a property on a number
\* throw a TypeError and end the loop with the elements before it installed.
RECURSIVE installGadgets(_, _, _)
installGadgets(s, arr, i) ==
  IF i > Len(arr) THEN Outcome(s, Return("void"))
  ELSE IF ~IsObject(arr[i]) THEN Outcome(s, Throw("TypeError"))
  ELSE LET r == NewRef(s.heap)
           g == ("addedAt" :> DateOf(arr[i], "addedAt")) @@ arr[i]
       IN installGadgets([s EXCEPT !.heap = Alloc(@, r, g),
                                   !.gadgets = MapSet(@, Get(g, "id"), r)],
                           arr, i + 1)

\* parsed.history.map(h => ({ ...h, timestamp: new Date(h.timestamp) })) from
\* element i on, acc the entries built so far: the properties of h are kept
\* as parsed (h.gadget included) but for timestamp; h.timestamp of null throws
\* a TypeError; a number has no properties to spread or to read.
RECURSIVE mapHistory(_, _, _, _)
mapHistory(s, arr, i, acc) ==
  IF i > Len(arr) THEN Outcome([s EXCEPT !.history = acc], Return("void"))
  ELSE IF IsNull(arr[i]) THEN Outcome(s, Throw("TypeError"))
  ELSE IF IsNumber(arr[i])
    THEN mapHistory(s, arr, i + 1, Append(acc, [timestamp |-> InvalidDate]))
  ELSE LET r == NewRef(s.heap)
           h == ("timestamp" :> DateOf(arr[i], "timestamp")) @@ arr[i]
       IN IF HasGadget(h)
            THEN mapHistory([s EXCEPT !.heap = Alloc(@, r, h.gadget)], arr, i + 1,
                            Append(acc, [h EXCEPT !.gadget = r]))
            ELSE mapHistory(s, arr, i + 1, Append(acc, h))

\* parsed.version || 1
versionOr1(parsed) ==
  IF "version" \in DOMAIN parsed /\ parsed.version # 0 THEN parsed.version ELSE 1

\* this.gadgets.clear()
clear(s) == [s EXCEPT !.gadgets = <<>>]

\* importEncrypted(encryptedExport, secret), d being the way deciphering and
\* JSON.parse ended (one of Decipher's).
importEncrypted(s, encryptedExport, secret, d) ==
  IF d.throws THEN Outcome(s, d)
  ELSE LET parsed == d.value
       IN IF IsNull(parsed) \/ ~IsArrayField(parsed, "gadgets")
               \/ ~IsArrayField(parsed, "history")
            THEN Outcome(s, Throw("Invalid encrypted data."))
            ELSE LET s1 == clear(s)
                     o2 == installGadgets(s1, parsed.gadgets, 1)
                 IN IF o2.ret.throws THEN Outcome(Collect(o2.store), o2.ret)
                    ELSE LET o3 == mapHistory(o2.store, parsed.history, 1, <<>>)
                         IN IF o3.ret.throws
                              THEN Outcome(Collect(o2.store), o3.ret)
                              ELSE Outcome(Collect([o3.store EXCEPT
                                             !.version = versionOr1(parsed)]),
                                           Return("void"))

\* ---------------------------------------------------------------- views
\* The stored records, in the Map's order.
Gadgets(s) == [i \in DOMAIN s.gadgets |-> s.heap[s.gadgets[i].val]]
GadgetSet(s) == {s.heap[s.gadgets[i].val] : i \in DOMAIN s.gadgets}
\* The history with each snapshot's fields.
History(s) ==
  [i \in DOMAIN s.history |->
     IF HasGadget(s.history[i])
       THEN [s.history[i] EXCEPT !.gadget = s.heap[@]]
       ELSE s.history[i]]

\* What a caller can observe of a tracker.
View(s) == [gadgets |-> Gadgets(s), history |-> History(s), version |-> s.version]

\* Array.prototype.sort((a, b) => b.addedAt.getTime() - a.addedAt.getTime()):
\* latest first, elements of equal addedAt in their order in arr (stable).
IsLater(y, x) == y.addedAt.t > x.addedAt.t
RECURSIVE sortByAddedAtDesc(_)
sortByAddedAtDesc(arr) ==
  IF arr = <<>> THEN <<>>
  ELSE LET x == Head(arr)
           rest == sortByAddedAtDesc(Tail(arr))
       IN SelectSeq(rest, LAMBDA y : IsLater(y, x)) \o <<x>>
            \o SelectSeq(rest, LAMBDA y : ~IsLater(y, x))

\* listGadgets()
listGadgets(s) == sortByAddedAtDesc(Gadgets(s))

\* ---------------------------------------------------------------- actions
\* The arrays a tracker is constructed with: none, as in the driver, or one
\* holding a Gadget of the caller's making, which the caller leaves alone
\* afterwards.
P0 == [id |-> Id(MaxHist), name |-> "a", brand |-> "x", price |-> 1,
       addedAt |-> Date(0)]
InitialGadgets == {<<>>, <<P0>>}

\* const tracker = new EnterpriseGadgetTracker(initialGadgets); tracker2 is
\* constructed later, until then it stands empty.
Init ==
  /\ initialGadgets \in InitialGadgets
  /\ tracker = constructor(initialGadgets)
  /\ tracker2 = EmptyStore
  /\ encrypted = <<>>
  /\ now = -1
  /\ pc = "build"
  /\ last = [op |-> "new", ret |-> Return("void")]

\* generateId(): 48 random bits, taken not to collide with an id already
\* issued. Ids are opaque and the tracker never compares two of them for
\* anything but equality, so the unissued ids are interchangeable and the
\* model issues the least of them.
IssuedIds(s) == {s.heap[r].id : r \in DOMAIN s.heap}
generateId(s) ==
  {Id(i) : i \in {k \in 1..MaxHist :
     /\ Id(k) \notin IssuedIds(s)
     /\ \A j \in 1..(k - 1) : Id(j) \in IssuedIds(s)}}

\* new Date(): what the clock shows at a reading made after the reading t:
\* the same millisecond or a later one, the next instant standing for every
\* later one. Instants are counted from the first reading, which shows 0
\* (before it, now is -1).
Clock(t) == IF t < 0 THEN {0} ELSE {t, t + 1}

\* The partial objects passed to updateGadget: each of name, brand, price is
\* provided (a one-element sequence) or left undefined (the empty sequence).
Opt(S) == {<<>>} \cup {<<v>> : v \in S}
Field(k, opt) == IF opt = <<>> THEN <<>> ELSE (k :> opt[1])
Partial(n, b, p) == Field("name", n) @@ Field("brand", b) @@ Field("price", p)
Datas ==
  {Partial(n, b, p) :
     n \in Opt(UpdateNames), b \in Opt(UpdateBrands), p \in Opt(UpdatePrices)}

\* The calls on tracker are counted by the history's room, MaxHist, which the
\* gadgets a tracker was constructed with share: each of them is a record
\* more for the calls to act on.
\* t1 and t2 are what the clock shows at the two readings of a successful call.
AddGadget(name, brand, price, id, t1, t2) ==
  /\ Len(tracker.history) + Len(initialGadgets) < MaxHist
  /\ LET o == addGadget(tracker, name, brand, price, id, t1, t2)
     IN /\ tracker' = o.store
        /\ last' = [op |-> "addGadget", ret |-> o.ret]
        /\ now' = IF o.ret.throws THEN now ELSE t2
  /\ UNCHANGED <<tracker2, initialGadgets, encrypted, pc>>

\* t is what the clock shows when recordHistory reads it.
UpdateGadget(id, data, t) ==
  /\ Len(tracker.history) + Len(initialGadgets) < MaxHist
  /\ LET o == updateGadget(tracker, id, data, t)
     IN /\ tracker' = o.store
        /\ last' = [op |-> "updateGadget", ret |-> o.ret]
        /\ now' = IF o.ret = Return("Gadget") THEN t ELSE now
  /\ UNCHANGED <<tracker2, initialGadgets, encrypted, pc>>

DeleteGadget(id, t) ==
  /\ Len(tracker.history) + Len(initialGadgets) < MaxHist
  /\ LET o == deleteGadget(tracker, id, t)
     IN /\ tracker' = o.store
        /\ last' = [op |-> "deleteGadget", ret |-> o.ret]
        /\ now' = IF o.ret = Return("true") THEN t ELSE now
  /\ UNCHANGED <<tracker2, initialGadgets, encrypted, pc>>

ExportEncrypted(secret, iv) ==
  /\ pc = "build"
  /\ pc' = "exported"
  /\ encrypted' = <<exportEncrypted(tracker, secret, iv)>>
  /\ last' = [op |-> "exportEncrypted", ret |-> Return("EncryptedExport")]
  /\ UNCHANGED <<tracker, tracker2, initialGadgets, now>>

\* Documents a caller can encrypt and hand to importEncrypted, besides the
\* exports of a tracker: null, documents without a gadgets or a history
\* array, arrays holding null or a number, gadgets that share an id, a gadget
\* without name, a snapshot whose addedAt is no date, and versions 0, -1, 2
\* and absent.
G0 == [id |-> Id(1), name |-> "a", brand |-> "x", price |-> 1,
       addedAt |-> toISOString(Date(0))]
G9 == [id |-> "gadget-imported", name |-> "a", brand |-> "x", price |-> 0,
       addedAt |-> toISOString(Date(0))]
G9b == [G9 EXCEPT !.name = "b"]
G8 == [id |-> "gadget-other", brand |-> "x", price |-> 1,
       addedAt |-> toISOString(Date(0))]
H0 == [action |-> "ADD", gadget |-> G9, timestamp |-> toISOString(Date(0))]
H1 == [H0 EXCEPT !.gadget.addedAt = [tag |-> "string", garbled |-> TRUE]]
Documents ==
  { JNull,
    [version |-> 1],
    [gadgets |-> <<G0>>, version |-> 1],
    [gadgets |-> <<JNull>>, history |-> <<>>, version |-> 1],
    [gadgets |-> <<G9, JNull>>, history |-> <<H0>>, version |-> 1],
    [gadgets |-> <<G9, JNumber>>, history |-> <<H0>>, version |-> 1],
    [gadgets |-> <<G9>>, history |-> <<H0, JNull>>, version |-> 2],
    [gadgets |-> <<>>, history |-> <<>>, version |-> 0],
    [gadgets |-> <<>>, history |-> <<>>, version |-> -1],
    [gadgets |-> <<G9>>, history |-> <<H0>>],
    [gadgets |-> <<G9>>, history |-> <<>>, version |-> 2],
    [gadgets |-> <<G9, G9b>>, history |-> <<H0>>, version |-> 1],
    [gadgets |-> <<G8>>, history |-> <<H1>>, version |-> 1] }

\* The encryptions of Documents, under the key and the iv of the driver's
\* export.
Seeds ==
  {[version |-> 1, iv |-> "iv1", data |-> Cipher(createKey("k1"), "iv1", doc)] :
     doc \in Documents}

\* The envelopes importEncrypted is called with: the encryptions of
\* Documents, the export in hand, and the export with another iv, with an iv
\* of another length, or with hex of another length, bad padding or a text
\* that is no JSON.
Envelopes ==
  Seeds
  \cup {encrypted[i] : i \in DOMAIN encrypted}
  \cup {[encrypted[i] EXCEPT !.iv = iv] :
          i \in DOMAIN encrypted, iv \in OtherIVs \cup {ShortIV}}
  \cup {[encrypted[i] EXCEPT !.data.damage = dmg] :
          i \in DOMAIN encrypted, dmg \in Damages}

\* const tracker2 = new EnterpriseGadgetTracker(arr), after the export.
NewTracker2(arr) ==
  /\ pc = "exported"
  /\ pc' = "constructed"
  /\ tracker2' = constructor(arr)
  /\ last' = [op |-> "new", ret |-> Return("void")]
  /\ UNCHANGED <<tracker, initialGadgets, encrypted, now>>

\* tracker2.importEncrypted(encryptedExport, secret), d being the way
\* deciphering and JSON.parse end in this call.
ImportEncrypted(encryptedExport, secret, d) ==
  /\ pc = "constructed"
  /\ d \in Decipher(encryptedExport.data, createKey(secret), encryptedExport.iv)
  /\ LET o == importEncrypted(tracker2, encryptedExport, secret, d)
     IN /\ tracker2' = o.store
        /\ last' = [op |-> "importEncrypted", ret |-> o.ret]
        /\ pc' = "done"
  /\ UNCHANGED <<tracker, initialGadgets, encrypted, now>>

Next ==
  \/ \E name \in Names, brand \in Brands, price \in Prices :
       \E id \in generateId(tracker), t1 \in Clock(now) :
         \E t2 \in Clock(t1) : AddGadget(name, brand, price, id, t1, t2)
  \/ \E id \in Ids, data \in Datas, t \in Clock(now) : UpdateGadget(id, data, t)
  \/ \E id \in Ids, t \in Clock(now) : DeleteGadget(id, t)

Spec == Init /\ [][Next]_vars
\* The driver of src/example.ts, with its calls in its order: additions and
\* updates on tracker, then the one export (const encrypted) under the
\* driver's secret, then the construction of tracker2 and an import into it.
NextIO ==
  \/ /\ pc = "build"
     /\ \E id \in generateId(tracker), t1 \in Clock(now) :
          \E t2 \in Clock(t1) : AddGadget("a", "x", 1, id, t1, t2)
  \/ /\ pc = "build" /\ tracker.gadgets # <<>>
     /\ \E t \in Clock(now) :
          UpdateGadget(listGadgets(tracker)[1].id, Partial(<<>>, <<>>, <<0>>), t)
  \/ \E iv \in IVs : ExportEncrypted("k1", iv)
  \/ \E arr \in InitialGadgets : NewTracker2(arr)
  \/ \E e \in Envelopes, secret \in Secrets :
       \E d \in Decipher(e.data, createKey(secret), e.iv) :
         ImportEncrypted(e, secret, d)

SpecIO == Init /\ [][NextIO]_vars

\* ----------------------------------------------------------------- claims
\* The values a call was made with are the parameters of its action; last
\* tells which call the latest step was and what it returned or threw. A
\* formula about the steps of one call reads last'.op first, which every
\* action sets, so that the action is only evaluated on the steps of that call.

InvalidPrice(data) == "price" \in DOMAIN data /\ data.price < 0

\* C1: updateGadget is all-or-nothing with respect to price validation: on an
\* existing id, a partial update whose price is negative (with or without name
\* and brand) throws and leaves the stored records and the history exactly as
\* they were before the call.
C1_UpdateAllOrNothing ==
  [][\A id \in Ids, data \in Datas, t \in Clock(now) :
       (/\ last'.op = "updateGadget"
        /\ MapHas(tracker.gadgets, id) /\ InvalidPrice(data)
        /\ UpdateGadget(id, data, t))
       => /\ last'.ret.throws
          /\ Gadgets(tracker') = Gadgets(tracker)
          /\ History(tracker') = History(tracker)]_vars

\* C2: whenever importEncrypted throws, for whatever reason, the gadgets, the
\* history and the version of the target tracker are exactly what they were
\* before the call.
C2_ImportFailureKeepsState ==
  [][\A e \in Envelopes, secret \in Secrets :
       \A d \in Decipher(e.data, createKey(secret), e.iv) :
         (/\ last'.op = "importEncrypted" /\ last'.ret.throws
          /\ ImportEncrypted(e, secret, d))
         => View(tracker2') = View(tracker2)]_vars

\* C3: round trip: importing, into a fresh tracker and with the same secret,
\* the export of a tracker built by additions, updates and deletions succeeds
\* and leaves the fresh tracker with the same set of gadgets (id, name, brand,
\* price, addedAt), the same history (action, gadget snapshot and timestamp of
\* every entry, in order) and the same version.
C3_RoundTrip ==
  [][\A secret \in Secrets, i \in DOMAIN encrypted :
       \A d \in Decipher(encrypted[i].data, createKey(secret), encrypted[i].iv) :
       (/\ last'.op = "importEncrypted"
        /\ tracker2 = EmptyStore
        /\ encrypted[i] = exportEncrypted(tracker, secret, encrypted[i].iv)
        /\ ImportEncrypted(encrypted[i], secret, d))
       => /\ ~last'.ret.throws
          /\ GadgetSet(tracker2') = GadgetSet(tracker)
          /\ History(tracker2') = History(tracker)
          /\ tracker2'.version = tracker.version]_vars

\* C4: addGadget with an empty name, an empty brand or a negative price throws
\* and changes neither the stored records nor the history; with a non-empty
\* name and brand and a price >= 0 it stores exactly one new record, holding
\* the values given, and appends exactly one history entry, an ADD entry whose
\* snapshot is a copy of that record.
C4_AddValidates ==
  [][\A name \in Names, brand \in Brands, price \in Prices :
       \A id \in generateId(tracker), t1 \in Clock(now) : \A t2 \in Clock(t1) :
         (last'.op = "addGadget" /\ AddGadget(name, brand, price, id, t1, t2))
         => IF name = "" \/ brand = "" \/ price < 0
              THEN /\ last'.ret.throws
                   /\ Gadgets(tracker') = Gadgets(tracker)
                   /\ History(tracker') = History(tracker)
              ELSE /\ ~last'.ret.throws
                   /\ \E g \in GadgetSet(tracker') :
                        /\ g \notin GadgetSet(tracker)
                        /\ g.name = name /\ g.brand = brand /\ g.price = price
                        /\ GadgetSet(tracker') = GadgetSet(tracker) \cup {g}
                        /\ Len(tracker'.gadgets) = Len(tracker.gadgets) + 1
                        /\ Len(tracker'.history) = Len(tracker.history) + 1
                        /\ SubSeq(History(tracker'), 1, Len(tracker.history))
                             = History(tracker)
                        /\ LET h == tracker'.history[Len(tracker'.history)]
                           IN /\ h.action = "ADD"
                              /\ tracker'.heap[h.gadget] = g
                              /\ h.gadget # MapGet(tracker'.gadgets, g.id)]_vars

\* A failing addGadget on a tracker that an earlier, valid addGadget filled.
C4_Witness ==
  /\ last.op = "addGadget" /\ last.ret.throws
  /\ \E i \in DOMAIN tracker.history : tracker.history[i].action = "ADD"
  /\ tracker.gadgets # <<>>

\* C5: the history is append-only and its snapshots are independent copies:
\* every addGadget, updateGadget or deleteGadget step leaves each entry already
\* recorded (action, snapshot fields, timestamp) as it was, so the history
\* before the step is a prefix of the history after it; no later update of a
\* live gadget alters the snapshot of an earlier entry.
C5_HistoryAppendOnly ==
  [][last'.op \in {"addGadget", "updateGadget", "deleteGadget"}
       => /\ Len(tracker'.history) >= Len(tracker.history)
          /\ \A i \in DOMAIN tracker.history :
               History(tracker')[i] = History(tracker)[i]]_vars

\* An update has changed a live gadget whose earlier entry still shows the
\* values it was recorded with.
C5_Witness ==
  /\ last.op = "updateGadget" /\ last.ret = Return("Gadget")
  /\ \E i \in DOMAIN tracker.history, j \in DOMAIN tracker.gadgets :
       LET h == History(tracker)[i]
           g == Gadgets(tracker)[j]
       IN /\ i < Len(tracker.history)
          /\ h.gadget.id = g.id
          /\ h.gadget.price # g.price

\* C6: deleteGadget on an id present in the store returns true, removes that
\* record, which no longer appears in listGadgets(), leaves every other stored
\* record unchanged and appends exactly one history entry, a DELETE entry
\* whose snapshot holds the values the record had just before the deletion.
C6_DeleteExisting ==
  [][\A id \in Ids, t \in Clock(now) :
       (/\ last'.op = "deleteGadget" /\ MapHas(tracker.gadgets, id)
        /\ DeleteGadget(id, t))
       => LET old == tracker.heap[MapGet(tracker.gadgets, id)]
              listed == listGadgets(tracker')
          IN /\ last'.ret = Return("true")
             /\ \A k \in DOMAIN listed : listed[k].id # id
             /\ GadgetSet(tracker') = GadgetSet(tracker) \ {old}
             /\ Len(listed) = Len(tracker.gadgets) - 1
             /\ Len(tracker'.history) = Len(tracker.history) + 1
             /\ SubSeq(History(tracker'), 1, Len(tracker.history))
                  = History(tracker)
             /\ LET h == History(tracker')[Len(tracker'.history)]
                IN h.action = "DELETE" /\ h.gadget = old]_vars

\* A deletion that returned true and left another record in the store.
C6_Witness ==
  /\ last.op = "deleteGadget" /\ last.ret = Return("true")
  /\ tracker.gadgets # <<>>
  /\ tracker.history[Len(tracker.history)].action = "DELETE"

\* C7: not-found is not an error and has no effect: updateGadget on an absent
\* id returns null, deleteGadget on an absent id returns false, neither
\* throws, and both leave the gadgets, the history and the version unchanged.
C7_NotFoundNoEffect ==
  [][/\ (/\ last'.op = "updateGadget"
         /\ \E id \in {i \in Ids : ~MapHas(tracker.gadgets, i)} :
              \E data \in Datas, t \in Clock(now) : UpdateGadget(id, data, t))
          => last'.ret = Return("null") /\ View(tracker') = View(tracker)
     /\ (/\ last'.op = "deleteGadget"
         /\ \E id \in {i \in Ids : ~MapHas(tracker.gadgets, i)} :
              \E t \in Clock(now) : DeleteGadget(id, t))
          => last'.ret = Return("false") /\ View(tracker') = View(tracker)]_vars

\* A deletion of an absent id on a tracker that holds records and history.
C7_Witness ==
  /\ last.op = "deleteGadget" /\ last.ret = Return("false")
  /\ tracker.gadgets # <<>>
  /\ tracker.history # <<>>

\* The Gadget that importEncrypted makes of an element of parsed.gadgets, and
\* the history entry it makes of an element of parsed.history.
Revived(g) == ("addedAt" :> DateOf(g, "addedAt")) @@ g
RevivedEntry(h) == ("timestamp" :> DateOf(h, "timestamp")) @@ h

\* C8: a successful importEncrypted overwrites, it does not merge: afterwards
\* the gadgets of the tracker are exactly those of the imported document (the
\* one that deciphering yielded), the history is exactly the document's
\* history, and the version is the document's, or 1 when that is absent or
\* falsy (0 included).
C8_ImportOverwrites ==
  [][(last'.op = "importEncrypted" /\ ~last'.ret.throws) =>
     \A e \in Envelopes, secret \in Secrets :
       \A d \in Decipher(e.data, createKey(secret), e.iv) :
       (~d.throws /\ ImportEncrypted(e, secret, d))
       => LET doc == d.value
          IN /\ Len(tracker2'.gadgets) = Len(doc.gadgets)
             /\ GadgetSet(tracker2')
                  = {Revived(doc.gadgets[i]) : i \in DOMAIN doc.gadgets}
             /\ Len(tracker2'.history) = Len(doc.history)
             /\ \A i \in DOMAIN doc.history :
                  History(tracker2')[i] = RevivedEntry(doc.history[i])
             /\ tracker2'.version
                  = IF "version" \in DOMAIN doc /\ doc.version # 0
                      THEN doc.version ELSE 1]_vars

\* C9: from an empty store (a tracker constructed without gadgets), after any additions, updates and deletions
\* (successful or failing), every stored record has a non-empty name, a
\* non-empty brand and a price >= 0.
C9_RecordsValid ==
  initialGadgets = <<>>
    => \A g \in GadgetSet(tracker) : g.name # "" /\ g.brand # "" /\ g.price >= 0

\* The latest history entry about the gadget id, if any (a set of at most one).
LatestEntry(s, id) ==
  {History(s)[i] : i \in {j \in DOMAIN s.history :
     /\ History(s)[j].gadget.id = id
     /\ \A k \in DOMAIN s.history :
          History(s)[k].gadget.id = id => k <= j}}

\* C10: the history stays consistent with the live state: from an empty store
\* (a tracker constructed without gadgets) with distinct generated ids, after any additions, updates and deletions
\* (failing calls included), the ids in the store are exactly those whose
\* latest history entry is not a DELETE, and the snapshot of that entry equals
\* the live record.
C10_HistoryMatchesLive ==
  initialGadgets = <<>>
    => \A id \in Ids :
         /\ MapHas(tracker.gadgets, id)
              <=> \E h \in LatestEntry(tracker, id) : h.action # "DELETE"
         /\ MapHas(tracker.gadgets, id)
              => \A h \in LatestEntry(tracker, id) :
                   h.gadget = tracker.heap[MapGet(tracker.gadgets, id)]
====
